---- MODULE Spec2Model ----
(***************************************************************************)
(* JenniferFurnitureScraper (src/main.py): the crawl loop, the listing     *)
(* page scanner, the pagination resolver, the product page parser and the  *)
(* two exporters, as a state machine over one scraper object.              *)
(*                                                                         *)
(* Text is a sequence of one-character strings.  A URL is a record         *)
(* [host, segs, page]; an href attribute is a record that also carries the *)
(* form it was written in ("rel" x/y, "root" /x/y, "full" http://h/x/y),   *)
(* so that urljoin is a real conversion.  A parsed document is a sequence  *)
(* of elements in document order; an element records which of the         *)
(* selectors of a selector list select it.                                 *)
(***************************************************************************)
EXTENDS Integers, Sequences, FiniteSets, TLC

\* ------------------------------------------------------------------ bounds
MaxPagesArg == 2        \* max_pages is drawn from 0..MaxPagesArg
MaxInvocations == 2     \* calls of scrape_multiple_pages on one object
MaxDocElems == 2        \* elements of a drawn document
NumSel == 2             \* modelled length of every selector list

\* ------------------------------------------------------------------ text
Digits == {"0", "1", "2", "3", "4", "5", "6", "7", "8", "9"}
Whitespace == {" "}
AlphaNumDash == Digits \cup {"A", "B", "S", "K", "U", "s", "k", "u", "n", "e", "x", "t", "N", "-"}

RECURSIVE LStrip(_)
LStrip(t) == IF t # <<>> /\ Head(t) \in Whitespace THEN LStrip(Tail(t)) ELSE t

RECURSIVE RStrip(_)
RStrip(t) ==
    IF t # <<>> /\ t[Len(t)] \in Whitespace THEN RStrip(SubSeq(t, 1, Len(t) - 1)) ELSE t

\* str.strip()
Strip(t) == RStrip(LStrip(t))

LowerChar(c) ==
    CASE c = "N" -> "n" [] c = "S" -> "s" [] c = "K" -> "k" [] c = "U" -> "u"
      [] c = "A" -> "a" [] c = "B" -> "b" [] OTHER -> c

\* str.lower()
Lower(t) == [i \in 1..Len(t) |-> LowerChar(t[i])]

IsPriceChar(c) == c \in Digits \cup {".", ","}

\* re.sub(r'[^\d.,]', '', text)
CleanPrice(t) == SelectSeq(t, IsPriceChar)

\* length of the prefix matched by  ^SKU:?\s*  under re.IGNORECASE (0: no match)
RECURSIVE SkipSpaces(_)
SkipSpaces(t) == IF t # <<>> /\ t[1] \in Whitespace THEN SkipSpaces(Tail(t)) ELSE t

HasSkuLabel(t, ignoreCase) ==
    /\ Len(t) >= 3
    /\ LET p == SubSeq(t, 1, 3)
       IN  IF ignoreCase THEN Lower(p) = <<"s", "k", "u">> ELSE p = <<"S", "K", "U">>

AfterSkuLabel(t) ==
    LET r == SubSeq(t, 4, Len(t))
        s == IF r # <<>> /\ r[1] = ":" THEN Tail(r) ELSE r
    IN  SkipSpaces(s)

\* re.sub(r'^SKU:?\s*', '', text, flags=re.IGNORECASE)
CleanSku(t) == IF HasSkuLabel(t, TRUE) THEN AfterSkuLabel(t) ELSE t

\* ------------------------------------------------------------------ URLs
\* A URL [host, segs, page]: page = NoPage when the URL has no page=<n> component.
NoPage == -1
MkUrl(h, s, p) == [host |-> h, segs |-> s, page |-> p]
\* None (also the empty string: both are falsy in `while current_url`)
NoneUrl == MkUrl("", <<>>, NoPage)
\* self.base_url, the constructor's default
base_url == MkUrl("site", <<>>, NoPage)

\* An href attribute as written in the markup.
MkHref(f, h, s, p) == [form |-> f, host |-> h, segs |-> s, page |-> p]
\* element.get('href') is None: the attribute is absent
NoHref == MkHref("none", "", <<>>, NoPage)
\* href=""
EmptyHref == MkHref("empty", "", <<>>, NoPage)
\* truthiness of element.get('href')
HasHref(h) == h.form \notin {"none", "empty"}

\* urljoin(base, href): an absolute href stands for itself, a relative one takes
\* the base's host; the base is a site root, so x/y and /x/y name the same page.
urljoin(base, h) ==
    IF h.form = "full" THEN MkUrl(h.host, h.segs, h.page)
    ELSE MkUrl(base.host, h.segs, h.page)

\* 'product' in href  /  a[href*="product"]
SegHasProduct(s) == s \in {"product", "products"}
HrefContainsProduct(h) == HasHref(h) /\ \E i \in 1..Len(h.segs) : SegHasProduct(h.segs[i])
\* "/<seg>/" in href: the segment is preceded by a slash (not the first segment
\* of a relative href) and followed by one (not the last segment)
HrefContainsSlashed(h, seg) ==
    /\ HasHref(h)
    /\ \E i \in 1..Len(h.segs) :
          /\ h.segs[i] = seg
          /\ i < Len(h.segs)
          /\ (i > 1 \/ h.form # "rel")

\* ------------------------------------------------------------------ listing documents
\* An anchor inside a card: `sel` is the link selector that selects it; every
\* anchor is also selected by the last link selector, 'a'.
MkLink(sel, h) == [sel |-> sel, href |-> h]
\* A top-level element of a listing page: the product selectors that select it
\* (cards), its own href when it is an anchor, the anchors it contains.
MkElem(tag, cards, h, links) == [tag |-> tag, cards |-> cards, href |-> h, links |-> links]
\* An element of the pagination area: `sel` is the plain next-link selector that
\* selects it (0: none), inPag whether it lies inside .pagination, isA whether
\* it is an anchor.
MkNav(sel, inPag, isA, text, h) ==
    [sel |-> sel, inPag |-> inPag, isA |-> isA, text |-> text, href |-> h]
MkListing(elems, nav) == [kind |-> "listing", elems |-> elems, nav |-> nav]

RECURSIVE FlatMap(_, _)
\* concatenation of Op(s[i]) over a sequence
FlatMap(Op(_), s) == IF s = <<>> THEN <<>> ELSE Op(Head(s)) \o FlatMap(Op, Tail(s))

LinkAsElem(l) == MkElem("a", {}, l.href, <<>>)
AnchorsOf(e) ==
    IF e.tag = "a" THEN <<e>> ELSE [i \in 1..Len(e.links) |-> LinkAsElem(e.links[i])]

\* soup.find_all('a'): every anchor, in document order
AllAnchors(doc) == FlatMap(AnchorsOf, doc.elems)

\* soup.select(selector) for the i-th product selector
SelectCards(doc, i) == SelectSeq(doc.elems, LAMBDA e : i \in e.cards)

RECURSIVE FirstCards(_, _)
\* lines 277-282: the cards of the first product selector that selects anything
FirstCards(doc, i) ==
    IF i > NumSel THEN <<>>
    ELSE IF SelectCards(doc, i) # <<>> THEN SelectCards(doc, i)
    ELSE FirstCards(doc, i + 1)

\* lines 285-286: soup.select('a[href*="product"]') or soup.select('a[href*="/products/"]')
AnchorFallback(doc) ==
    LET a == SelectSeq(AllAnchors(doc), LAMBDA e : HrefContainsProduct(e.href))
        b == SelectSeq(AllAnchors(doc), LAMBDA e : HrefContainsSlashed(e.href, "products"))
    IN  IF a # <<>> THEN a ELSE b

ProductCards(doc) ==
    IF FirstCards(doc, 1) # <<>> THEN FirstCards(doc, 1) ELSE AnchorFallback(doc)

\* card.select_one(selector) for the s-th link selector: the first anchor in the
\* card that the selector selects (the last selector, 'a', selects every anchor)
SelectOneLink(card, s) ==
    LET m == SelectSeq(card.links, LAMBDA l : l.sel = s \/ s = NumSel)
    IN  IF m = <<>> THEN NoHref ELSE m[1].href

RECURSIVE FirstLink(_, _)
\* lines 311-315: the first link selector whose first match has an href
FirstLink(card, s) ==
    IF s > NumSel THEN NoHref
    ELSE IF HasHref(SelectOneLink(card, s)) THEN SelectOneLink(card, s)
    ELSE FirstLink(card, s + 1)

\* lines 293-315: the href a card contributes (NoHref: none)
CardHref(card) ==
    IF card.tag = "a" /\ HasHref(card.href) THEN card.href ELSE FirstLink(card, 1)

InSeq(x, s) == \E i \in 1..Len(s) : s[i] = x

\* lines 319-320 and 331-332: append unless already present
AppendAlways(links, u) == Append(links, u)
AppendUnique(links, u) == IF InSeq(u, links) THEN links ELSE Append(links, u)

RECURSIVE LinksOfCards(_, _)
\* lines 291-320, the loop over the cards
LinksOfCards(cards, links) ==
    IF cards = <<>> THEN links
    ELSE LET h == CardHref(Head(cards))
         IN  LinksOfCards(Tail(cards),
                 IF HasHref(h) THEN AppendUnique(links, urljoin(base_url, h)) ELSE links)

\* line 329: href and ('product' in href or '/p/' in href)
LooksLikeProduct(h) == HrefContainsProduct(h) \/ HrefContainsSlashed(h, "p")

RECURSIVE LinksOfAnchors(_, _)
\* lines 326-332, the scan of every anchor
LinksOfAnchors(anchors, links) ==
    IF anchors = <<>> THEN links
    ELSE LET h == Head(anchors).href
         IN  LinksOfAnchors(Tail(anchors),
                 IF LooksLikeProduct(h) THEN AppendUnique(links, urljoin(base_url, h))
                 ELSE links)

\* lines 256-334: product_links of a fetched listing page
ProductLinks(doc) ==
    LET fromCards == LinksOfCards(ProductCards(doc), <<>>)
    IN  IF fromCards # <<>> THEN fromCards ELSE LinksOfAnchors(AllAnchors(doc), <<>>)

\* ------------------------------------------------------------------ pagination
\* soup.select_one(selector) for the i-th plain next-link selector
SelectOneNav(doc, i) ==
    LET m == SelectSeq(doc.nav, LAMBDA e : e.sel = i)
    IN  IF m = <<>> THEN NoHref ELSE m[1].href

IsNextText(t) == Lower(Strip(t)) = <<"n", "e", "x", "t">>

\* lines 368-376: '.pagination a' (scoped) or 'a', then the first element whose
\* text is "next"
SelectContainsNext(doc, scoped) ==
    LET els == SelectSeq(doc.nav, LAMBDA e : e.isA /\ (scoped => e.inPag))
        m == SelectSeq(els, LAMBDA e : IsNextText(e.text))
    IN  IF m = <<>> THEN NoHref ELSE m[1].href

\* the candidate of the i-th next-link selector: NumSel plain selectors, then
\* '.pagination a:contains("Next")' and 'a:contains("Next")'
NextCandidate(doc, i) ==
    IF i <= NumSel THEN SelectOneNav(doc, i)
    ELSE SelectContainsNext(doc, i = NumSel + 1)

RECURSIVE FirstNextLink(_, _)
\* lines 367-383
FirstNextLink(doc, i) ==
    IF i > NumSel + 2 THEN NoHref
    ELSE IF HasHref(NextCandidate(doc, i)) THEN NextCandidate(doc, i)
    ELSE FirstNextLink(doc, i + 1)

\* lines 386-393: page=<n> becomes page=<n+1>
IncrementPage(url) == MkUrl(url.host, url.segs, url.page + 1)

\* get_next_page_url(url, html)
get_next_page_url(url, doc) ==
    IF HasHref(FirstNextLink(doc, 1)) THEN urljoin(base_url, FirstNextLink(doc, 1))
    ELSE IF url.page # NoPage THEN IncrementPage(url)
    ELSE NoneUrl


\* ------------------------------------------------------------------ product documents
\* An element of a product page.  f names the field whose selector list may
\* select it ("title", "price", "original_price", "sku", "description",
\* "images", "specifications") or is "meta" for <meta name="description">;
\* sels are the selectors of that list which select it; h1 says it is an <h1>;
\* text is its text (the content attribute of a meta element); src and dsrc are
\* an <img>'s src and data-src; nm and vl are, for a specification row, what
\* each name and each value sub-selector finds in it.
MkPElem(f, sels, h1, text, src, dsrc, nm, vl) ==
    [f |-> f, sels |-> sels, h1 |-> h1, text |-> text, src |-> src, dsrc |-> dsrc,
     nm |-> nm, vl |-> vl]
\* what a sub-selector of a specification row finds
NoCell == [hit |-> FALSE, text |-> <<>>]
Cell(t) == [hit |-> TRUE, text |-> t]
MkProductDoc(elems) == [kind |-> "product", elems |-> elems]

NA == <<"N", "/", "A">>

\* a dict, as a function from its keys
EmptyDict == [k \in {} |-> <<>>]
HasKey(d, k) == k \in DOMAIN d
Put(d, k, v) == [x \in (DOMAIN d) \cup {k} |-> IF x = k THEN v ELSE d[x]]

\* str(soup): the text of the markup, element by element
SerializeElem(e) ==
    IF e.f = "images" THEN <<"<", ">">>
    ELSE IF e.f = "specifications"
    THEN <<"<">> \o FlatMap(LAMBDA c : c.text, e.nm) \o FlatMap(LAMBDA c : c.text, e.vl)
            \o <<">">>
    ELSE <<"<">> \o e.text \o <<">">>
Serialize(doc) == FlatMap(SerializeElem, doc.elems)

RECURSIVE TakeWhileIn(_, _)
TakeWhileIn(t, S) ==
    IF t # <<>> /\ Head(t) \in S THEN <<Head(t)>> \o TakeWhileIn(Tail(t), S) ELSE <<>>

RECURSIVE FirstPriceMatch(_)
\* re.compile(r'(\$\d+(?:\.\d{2})?)').findall(text)[0], <<>> when there is none
FirstPriceMatch(t) ==
    IF Len(t) < 2 THEN <<>>
    ELSE IF t[1] = "$" /\ t[2] \in Digits
    THEN LET d == TakeWhileIn(Tail(t), Digits)
             r == SubSeq(t, 2 + Len(d), Len(t))
         IN  IF Len(r) >= 3 /\ r[1] = "." /\ r[2] \in Digits /\ r[3] \in Digits
             THEN <<"$">> \o d \o SubSeq(r, 1, 3)
             ELSE <<"$">> \o d
    ELSE FirstPriceMatch(Tail(t))

RECURSIVE FirstSkuMatch(_)
\* re.compile(r'SKU:?\s*([A-Za-z0-9-]+)').findall(text)[0], <<>> when there is none
FirstSkuMatch(t) ==
    IF Len(t) < 4 THEN <<>>
    ELSE IF HasSkuLabel(t, FALSE) /\ TakeWhileIn(AfterSkuLabel(t), AlphaNumDash) # <<>>
    THEN TakeWhileIn(AfterSkuLabel(t), AlphaNumDash)
    ELSE FirstSkuMatch(Tail(t))

\* soup.select(selector) for the i-th selector of field f's list
SelectAll(doc, f, i) == SelectSeq(doc.elems, LAMBDA e : e.f = f /\ i \in e.sels)

RECURSIVE FirstSelFrom(_, _, _)
FirstSelFrom(doc, f, i) ==
    IF i > NumSel THEN 0
    ELSE IF SelectAll(doc, f, i) # <<>> THEN i
    ELSE FirstSelFrom(doc, f, i + 1)

\* `for selector in <f>_selectors: ... if elem: ...; break`: the index of the
\* first selector of the list that selects an element (0: none does)
FirstSel(doc, f) == FirstSelFrom(doc, f, 1)

\* soup.select_one(selector) of the winning selector
FirstElem(doc, f) == SelectAll(doc, f, FirstSel(doc, f))[1]

\* lines 50-74
TitleOf(doc, product) ==
    IF FirstSel(doc, "title") # 0
    THEN Put(product, "title", Strip(FirstElem(doc, "title").text))
    ELSE LET h1_elems == SelectSeq(doc.elems, LAMBDA e : e.h1)
         IN  IF h1_elems # <<>> THEN Put(product, "title", Strip(h1_elems[1].text))
             ELSE Put(product, "title", NA)

\* lines 77-106
PriceOf(doc, product) ==
    IF FirstSel(doc, "price") # 0
    THEN Put(product, "price", CleanPrice(Strip(FirstElem(doc, "price").text)))
    ELSE IF FirstPriceMatch(Serialize(doc)) # <<>>
    THEN Put(product, "price", FirstPriceMatch(Serialize(doc)))
    ELSE Put(product, "price", NA)

\* product.get(key, default)
Get(d, k, default) == IF HasKey(d, k) THEN d[k] ELSE default

\* lines 109-128
OriginalPriceOf(doc, product) ==
    IF FirstSel(doc, "original_price") # 0
    THEN Put(product, "original_price",
             CleanPrice(Strip(FirstElem(doc, "original_price").text)))
    ELSE Put(product, "original_price", Get(product, "price", NA))

\* lines 131-157
SkuOf(doc, product) ==
    IF FirstSel(doc, "sku") # 0
    THEN Put(product, "sku", CleanSku(Strip(FirstElem(doc, "sku").text)))
    ELSE IF FirstSkuMatch(Serialize(doc)) # <<>>
    THEN Put(product, "sku", FirstSkuMatch(Serialize(doc)))
    ELSE Put(product, "sku", NA)

DescriptionNoSentinel(doc, product) ==
    IF FirstSel(doc, "description") # 0
    THEN Put(product, "description", Strip(FirstElem(doc, "description").text))
    ELSE LET metas == SelectSeq(doc.elems, LAMBDA e : e.f = "meta")
         IN  IF metas # <<>> /\ metas[1].text # <<>>
             THEN Put(product, "description", metas[1].text)
             ELSE product
\* lines 160-184
DescriptionOf(doc, product) ==
    IF FirstSel(doc, "description") # 0
    THEN Put(product, "description", Strip(FirstElem(doc, "description").text))
    ELSE LET metas == SelectSeq(doc.elems, LAMBDA e : e.f = "meta")
         IN  IF metas # <<>> /\ metas[1].text # <<>>
             THEN Put(product, "description", metas[1].text)
             ELSE Put(product, "description", NA)

\* img.get('src') or img.get('data-src')
ImgUrl(e) == IF HasHref(e.src) THEN e.src ELSE e.dsrc

\* lines 202-206 and 213-217: the resolved URLs of the images that have one
RECURSIVE ImageUrls(_)
ImageUrls(imgs) ==
    IF imgs = <<>> THEN <<>>
    ELSE (IF HasHref(ImgUrl(Head(imgs))) THEN <<urljoin(base_url, ImgUrl(Head(imgs)))>>
          ELSE <<>>) \o ImageUrls(Tail(imgs))

SegLower(s) == CASE s = "Product" -> "product" [] s = "Item" -> "item" [] OTHER -> s
\* 'product' in img_url.lower() or 'item' in img_url.lower()
ImgLooksLikeProduct(h) ==
    \E i \in 1..Len(h.segs) : SegLower(h.segs[i]) \in {"product", "products", "item"}

\* lines 212-217: soup.find_all('img') filtered
GenericImages(doc) ==
    ImageUrls(SelectSeq(doc.elems,
        LAMBDA e : e.f = "images" /\ HasHref(ImgUrl(e)) /\ ImgLooksLikeProduct(ImgUrl(e))))

\* lines 187-218
ImagesOf(doc, product) ==
    LET fromSel == IF FirstSel(doc, "images") # 0
                   THEN ImageUrls(SelectAll(doc, "images", FirstSel(doc, "images")))
                   ELSE <<>>
    IN  IF fromSel # <<>> THEN Put(product, "images", fromSel)
        ELSE Put(product, "images", GenericImages(doc))

\* `a or b or ...` over the sub-selectors of a row: the first that finds an element
RECURSIVE FirstCell(_)
FirstCell(cells) ==
    IF cells = <<>> THEN NoCell
    ELSE IF Head(cells).hit THEN Head(cells) ELSE FirstCell(Tail(cells))

RECURSIVE SpecsOfRows(_, _)
\* lines 233-240
SpecsOfRows(rows, specs) ==
    IF rows = <<>> THEN specs
    ELSE LET name_elem == FirstCell(Head(rows).nm)
             value_elem == FirstCell(Head(rows).vl)
         IN  SpecsOfRows(Tail(rows),
                 IF name_elem.hit /\ value_elem.hit
                 THEN Put(specs, Strip(name_elem.text), Strip(value_elem.text))
                 ELSE specs)

\* lines 221-245
SpecificationsOf(doc, product) ==
    Put(product, "specifications",
        IF FirstSel(doc, "specifications") # 0
        THEN SpecsOfRows(SelectAll(doc, "specifications", FirstSel(doc, "specifications")),
                         EmptyDict)
        ELSE EmptyDict)

\* lines 42-248: the record parse_product_page builds from a fetched document
ParseDocument(doc, product_url) ==
    LET p1 == TitleOf(doc, EmptyDict)
        p2 == PriceOf(doc, p1)
        p3 == OriginalPriceOf(doc, p2)
        p4 == SkuOf(doc, p3)
        p5 == DescriptionOf(doc, p4)
        p6 == ImagesOf(doc, p5)
        p7 == SpecificationsOf(doc, p6)
    IN  Put(p7, "url", product_url)


\* ------------------------------------------------------------------ fetched pages
\* get_page_html returns the response text, or None when the request fails; the
\* callers test `if not html`, which an empty body fails too.
NoDoc == [kind |-> "none", elems |-> <<>>, nav |-> <<>>]
EmptyBody == [kind |-> "empty", elems |-> <<>>, nav |-> <<>>]
Truthy(html) == html.kind \notin {"none", "empty"}

\* hrefs found in the drawn pages
HrefP1rel == MkHref("rel", "", <<"products", "1">>, NoPage)
HrefP1full == MkHref("full", "site", <<"products", "1">>, NoPage)
HrefP2root == MkHref("root", "", <<"p", "2">>, NoPage)
HrefP2rel == MkHref("rel", "", <<"p", "2">>, NoPage)
HrefP3full == MkHref("full", "site", <<"product", "3">>, NoPage)
HrefL1 == MkHref("root", "", <<"collections">>, NoPage)
HrefL2 == MkHref("full", "site", <<"collections">>, 2)
UrlL1 == MkUrl("site", <<"collections">>, NoPage)
UrlL2 == MkUrl("site", <<"collections">>, 2)
UrlP1 == MkUrl("site", <<"products", "1">>, NoPage)
StartUrls == {UrlL1, UrlL2, NoneUrl}

TextNext == <<" ", "N", "e", "x", "t">>
TextTwo == <<"2">>

SeqsUpTo(S, n) == UNION {[1..k -> S] : k \in 0..n}

\* the product pages a crawl is served
TextTitleA == <<" ", "A", " ">>
TextPriceA == <<"$", "1", "5">>
PElemText(f, sels, h1, text) == MkPElem(f, sels, h1, text, NoHref, NoHref, <<>>, <<>>)
CrawlProductDocs ==
    { MkProductDoc(<<PElemText("title", {1}, TRUE, TextTitleA),
                     PElemText("price", {1}, FALSE, TextPriceA)>>) }

\* the listing pages a crawl is served
CrawlElems ==
    { <<MkElem("div", {1}, NoHref, <<MkLink(1, HrefP1rel)>>),
        MkElem("div", {1}, NoHref, <<MkLink(1, HrefP1full)>>)>>,
      <<MkElem("a", {NumSel}, HrefP1rel, <<>>), MkElem("a", {NumSel}, HrefP3full, <<>>)>> }
CrawlNavs ==
    { <<>>,
      <<MkNav(1, TRUE, TRUE, TextTwo, HrefL1)>>,
      <<MkNav(0, TRUE, TRUE, TextNext, HrefL2)>> }
CrawlListingDocs == {MkListing(e, n) : e \in CrawlElems, n \in CrawlNavs}

\* the listing pages scrape_category_page is exercised on
ScanHrefs == {HrefP1rel, HrefP1full, HrefP2root, HrefP2rel, EmptyHref}
ScanLinks == {MkLink(1, HrefP1rel), MkLink(NumSel, HrefP1full), MkLink(1, NoHref)}
ScanCardSets == {{}, {1}, {NumSel}}
ScanElems ==
    {MkElem("a", c, h, <<>>) : c \in ScanCardSets, h \in ScanHrefs}
    \cup {MkElem("div", c, NoHref, l) : c \in ScanCardSets, l \in SeqsUpTo(ScanLinks, 2)}
ScanListingDocs == {MkListing(e, <<>>) : e \in SeqsUpTo(ScanElems, MaxDocElems)}
ScanProductDocs == {MkProductDoc(<<>>)}

\* the product pages parse_product_page is exercised on
TextTitleB == <<"B">>
TextPriceB == <<" ", "2", ",", "5", "0", " ", "U">>
TextSkuA == <<"s", "k", "u", ":", " ", "A", "-", "1">>
TextSkuB == <<"B", "2">>
TextDescA == <<"A", " ", "B", " ">>
TextLoosePrice == <<"$", "5", ".", "9", "9", "0">>
TextLooseSku == <<"x", "S", "K", "U", " ", "A", "1", " ">>
TextNoPrice == <<"$", " ", "5">>
FieldTexts(f) ==
    CASE f = "title" -> {TextTitleA, TextTitleB}
      [] f = "price" -> {TextPriceA, TextPriceB}
      [] f = "original_price" -> {TextPriceA, TextPriceB}
      [] f = "sku" -> {TextSkuA, TextSkuB}
      [] f = "description" -> {TextDescA, <<>>}
ScalarFields == {"title", "price", "original_price", "sku", "description"}
ImgPlain == MkHref("root", "", <<"img", "a">>, NoPage)
ImgProduct == MkHref("rel", "", <<"Product", "b">>, NoPage)
ImgItem == MkHref("full", "cdn", <<"item", "c">>, NoPage)
PElemImg(sels, src, dsrc) == MkPElem("images", sels, FALSE, <<>>, src, dsrc, <<>>, <<>>)
PElemRow(sels, nm, vl) == MkPElem("specifications", sels, FALSE, <<>>, NoHref, NoHref, nm, vl)
ParseElems ==
    UNION {{PElemText(f, {k}, f = "title", t) : k \in {1, NumSel}, t \in FieldTexts(f)} :
             f \in ScalarFields}
    \cup {PElemText("other", {}, h, t) :
            h \in BOOLEAN, t \in {TextTitleB, TextLoosePrice, TextLooseSku, TextNoPrice}}
    \cup {PElemText("meta", {}, FALSE, t) : t \in {<<>>, TextDescA}}
    \cup {PElemImg(c, a, b) :
            c \in {{}, {1}, {NumSel}},
            a \in {NoHref, EmptyHref, ImgPlain},
            b \in {NoHref, ImgProduct, ImgItem}}
    \cup {PElemRow({k}, n, v) :
            k \in {1, NumSel},
            n \in {<<NoCell, NoCell>>, <<NoCell, Cell(TextTitleA)>>,
                   <<Cell(TextTitleB), Cell(TextTitleA)>>},
            v \in {<<NoCell>>, <<Cell(TextPriceB)>>}}
ParseDocs == {MkProductDoc(e) : e \in SeqsUpTo(ParseElems, MaxDocElems)}

\* ------------------------------------------------------------------ exporters
\* json.dump(self.all_products, f): the file holds the array of records
JsonFile(records) == [exists |-> TRUE, data |-> records]
NoFile == [exists |-> FALSE, data |-> <<>>]

\* f"spec_{spec}": a column name is a text; the fixed names are one token long
SpecColumn(name) == <<"spec_">> \o name
\* lines 444-447: the specification columns over all records (line 449 sorts
\* them; a set stands for its sorted list)
SpecFields(records) ==
    UNION { {SpecColumn(n) : n \in DOMAIN Get(records[i], "specifications", EmptyDict)} :
            i \in 1..Len(records) }

RECURSIVE JoinUrls(_)
\* '; '.join(images)
JoinUrls(urls) ==
    IF urls = <<>> THEN <<>>
    ELSE IF Len(urls) = 1 THEN <<urls[1]>>
    ELSE <<urls[1], MkUrl("; ", <<>>, NoPage)>> \o JoinUrls(Tail(urls))

RECURSIVE PutSpecs(_, _, _)
\* lines 468-469
PutSpecs(row, specs, names) ==
    IF names = {} THEN row
    ELSE LET n == CHOOSE x \in names : TRUE
         IN  PutSpecs(Put(row, SpecColumn(n), specs[n]), specs, names \ {n})

\* lines 457-469: the row of one record
CsvRow(product) ==
    LET row == [c \in {<<"title">>, <<"price">>, <<"original_price">>, <<"sku">>,
                       <<"description">>, <<"url">>, <<"images">>} |->
                   IF c = <<"images">> THEN JoinUrls(Get(product, "images", <<>>))
                   ELSE Get(product, c[1], <<>>)]
        specs == Get(product, "specifications", EmptyDict)
    IN  PutSpecs(row, specs, DOMAIN specs)

\* lines 441-471: header and one row per record
CsvFile(records) ==
    [exists |-> TRUE,
     data |-> [header |-> [lead |-> <<"title", "price", "original_price", "sku",
                                     "description", "url">>,
                           specs |-> SpecFields(records),
                           last |-> "images"],
               rows |-> [i \in 1..Len(records) |-> CsvRow(records[i])]]]

\* line 436: `if not self.all_products`
NothingToSaveNever(records) == FALSE
NothingToSave(records) == records = <<>>

\* ------------------------------------------------------------------ the scraper
VARIABLES
    mode,           \* which entry point is exercised: "crawl", "scan" or "parse"
    pc,             \* where the running call stands
    inv,            \* calls of scrape_multiple_pages made on this object
    pages_left,     \* max_pages still available to later calls (model bound)
    start_url,      \* scrape_multiple_pages: start_url
    max_pages,      \* scrape_multiple_pages: max_pages
    current_url,    \* scrape_multiple_pages: current_url
    page_count,     \* scrape_multiple_pages: page_count
    html,           \* scrape_multiple_pages: html
    soup,           \* scrape_category_page, parse_product_page: soup, the page last parsed
    product_links,  \* scrape_category_page: product_links
    link_idx,       \* scrape_category_page: position of `for link in product_links`
    products,       \* scrape_category_page: products
    all_products,   \* self.all_products
    json_file,      \* the file save_to_json writes
    csv_file,       \* the file save_to_csv writes
    last_print,     \* the last line printed
    fetchLog,       \* history: the requests get_page_html issued in this call
    run_records     \* history: the records scrape_category_page returned in this call

vars == <<mode, pc, inv, pages_left, start_url, max_pages, current_url, page_count, html,
          soup, product_links, link_idx, products, all_products, json_file, csv_file,
          last_print, fetchLog, run_records>>

crawlLocals == <<start_url, max_pages, current_url, page_count, html>>
scanLocals == <<soup, product_links, link_idx, products>>
files == <<json_file, csv_file>>

\* the pages a request may be answered with
ListingPages == IF mode = "scan" THEN ScanListingDocs ELSE CrawlListingDocs
ProductPages ==
    CASE mode = "parse" -> ParseDocs
      [] mode = "scan" -> ScanProductDocs
      [] OTHER -> CrawlProductDocs
FetchResults(pages) == {NoDoc, EmptyBody} \cup pages

\* get_page_html(url), with the request recorded
Fetched(url, role, r) ==
    Append(fetchLog, [url |-> url, role |-> role, it |-> page_count + 1, ok |-> Truthy(r)])

Printed(msg) == [msg |-> msg, n |-> 0]

\* __init__ (lines 11-18), before any call
InitObject ==
    /\ inv = 0
    /\ pages_left = MaxPagesArg
    /\ start_url = NoneUrl
    /\ max_pages = 0
    /\ page_count = 0
    /\ html = NoDoc
    /\ soup = NoDoc
    /\ link_idx = 1
    /\ products = <<>>
    /\ all_products = <<>>
    /\ json_file = NoFile
    /\ csv_file = NoFile
    /\ last_print = Printed("")
    /\ fetchLog = <<>>
    /\ run_records = <<>>

Init ==
    /\ mode = "crawl"
    /\ pc = "idle"
    /\ current_url = NoneUrl
    /\ product_links = <<>>
    /\ InitObject

\* line 402: `while current_url and page_count < max_pages`
LoopCondInclusive(cur, cnt, mx) == cur # NoneUrl /\ cnt <= mx
LoopCond(cur, cnt, mx) == cur # NoneUrl /\ cnt < mx

\* line 416: `if next_url == current_url`
IsSamePageNever(next_url, cur) == FALSE
IsSamePage(next_url, cur) == next_url = cur

\* lines 397-400: a call of scrape_multiple_pages(su, mp)
Invoke(su, mp) ==
    /\ pc \in {"idle", "done"}
    /\ inv < MaxInvocations
    /\ mp <= pages_left
    /\ inv' = inv + 1
    /\ pages_left' = pages_left - mp
    /\ start_url' = su
    /\ max_pages' = mp
    /\ current_url' = su
    /\ page_count' = 0
    /\ html' = NoDoc
    /\ soup' = NoDoc
    /\ product_links' = <<>>
    /\ link_idx' = 1
    /\ products' = <<>>
    /\ fetchLog' = <<>>
    /\ run_records' = <<>>
    /\ pc' = "loop"
    /\ last_print' = Printed("")
    /\ UNCHANGED <<mode, all_products, files>>

\* line 402 false, line 426: the loop ends and the call returns self.all_products
LoopExit ==
    /\ pc = "loop"
    /\ ~LoopCond(current_url, page_count, max_pages)
    /\ pc' = "done"
    /\ UNCHANGED <<mode, inv, pages_left, crawlLocals, scanLocals, all_products, files,
                   last_print, fetchLog, run_records>>

\* lines 402-406: the loop body starts, the listing page is requested
FetchPage ==
    /\ pc = "loop"
    /\ LoopCond(current_url, page_count, max_pages)
    /\ \E r \in FetchResults(ListingPages) :
          /\ fetchLog' = Fetched(current_url, "page", r)
          /\ html' = r
          /\ pc' = IF Truthy(r) THEN "scan" ELSE "done"
    /\ last_print' = Printed("fetch")
    /\ UNCHANGED <<mode, inv, pages_left, start_url, max_pages, current_url, page_count,
                   scanLocals, all_products, files, run_records>>

\* lines 252-336: scrape_category_page requests the page again and collects the links
ScanFetch ==
    /\ pc = "scan"
    /\ \E r \in FetchResults(ListingPages) :
          /\ fetchLog' = Fetched(current_url, "scan", r)
          /\ soup' = IF Truthy(r) THEN r ELSE soup
          /\ product_links' = IF Truthy(r) THEN ProductLinks(r) ELSE <<>>
          /\ pc' = IF Truthy(r) THEN "products" ELSE "advance"
    /\ link_idx' = 1
    /\ products' = <<>>
    /\ last_print' = Printed("fetch")
    /\ UNCHANGED <<mode, inv, pages_left, crawlLocals, all_products, files, run_records>>

\* lines 339-344 with parse_product_page (lines 36-248): one turn of the loop
ParseProduct ==
    /\ pc = "products"
    /\ link_idx <= Len(product_links)
    /\ \E r \in FetchResults(ProductPages) :
          /\ fetchLog' = Fetched(product_links[link_idx], "product", r)
          /\ soup' = IF Truthy(r) THEN r ELSE soup
          /\ products' = IF Truthy(r)
                         THEN Append(products, ParseDocument(r, product_links[link_idx]))
                         ELSE products
    /\ link_idx' = link_idx + 1
    /\ last_print' = Printed("fetch")
    /\ UNCHANGED <<mode, pc, inv, pages_left, crawlLocals, product_links, all_products,
                   files, run_records>>

\* line 346: the loop over the links is over, scrape_category_page returns
ScanReturn ==
    /\ pc = "products"
    /\ link_idx > Len(product_links)
    /\ pc' = "advance"
    /\ UNCHANGED <<mode, inv, pages_left, crawlLocals, scanLocals, all_products, files,
                   last_print, fetchLog, run_records>>

\* lines 410-421: aggregate, resolve the next page, stop or go on
Advance ==
    /\ pc = "advance"
    /\ all_products' = all_products \o products
    /\ run_records' = run_records \o products
    /\ LET next_url == get_next_page_url(current_url, html)
       IN  IF IsSamePage(next_url, current_url)
           THEN /\ pc' = "done"
                /\ UNCHANGED <<current_url, page_count>>
           ELSE /\ current_url' = next_url
                /\ page_count' = page_count + 1
                /\ pc' = "loop"
    /\ last_print' = Printed("debug")
    /\ UNCHANGED <<mode, inv, pages_left, start_url, max_pages, html, scanLocals, files,
                   fetchLog>>

\* lines 428-432
save_to_json ==
    /\ pc \in {"idle", "done"}
    /\ json_file' = JsonFile(all_products)
    /\ last_print' = [msg |-> "Saved to json", n |-> Len(all_products)]
    /\ UNCHANGED <<mode, pc, inv, pages_left, crawlLocals, scanLocals, all_products,
                   csv_file, fetchLog, run_records>>

\* lines 434-473
save_to_csv ==
    /\ pc \in {"idle", "done"}
    /\ IF NothingToSave(all_products)
       THEN /\ last_print' = Printed("No products to save")
            /\ UNCHANGED csv_file
       ELSE /\ csv_file' = CsvFile(all_products)
            /\ last_print' = [msg |-> "Saved to csv", n |-> Len(all_products)]
    /\ UNCHANGED <<mode, pc, inv, pages_left, crawlLocals, scanLocals, all_products,
                   json_file, fetchLog, run_records>>

Next ==
    \/ \E su \in StartUrls, mp \in 0..MaxPagesArg : Invoke(su, mp)
    \/ LoopExit
    \/ FetchPage
    \/ ScanFetch
    \/ ParseProduct
    \/ ScanReturn
    \/ Advance
    \/ save_to_json
    \/ save_to_csv

Spec == Init /\ [][Next]_vars

\* scrape_category_page(url) called on a fresh object
InitScan ==
    /\ mode = "scan"
    /\ pc = "scan"
    /\ current_url = UrlL1
    /\ product_links = <<>>
    /\ InitObject

NextScan ==
    \/ ScanFetch
    \/ ParseProduct
    \/ ScanReturn

SpecScan == InitScan /\ [][NextScan]_vars

\* parse_product_page(url) called on a fresh object, its record collected in `products`
InitParse ==
    /\ mode = "parse"
    /\ pc = "products"
    /\ current_url = NoneUrl
    /\ product_links = <<UrlP1>>
    /\ InitObject

NextParse == ParseProduct

SpecParse == InitParse /\ [][NextParse]_vars

\* ------------------------------------------------------------------ properties
SeqHasNoDuplicates(q) == \A i, j \in 1..Len(q) : q[i] = q[j] => i = j
Count(q, Test(_)) == Cardinality({i \in 1..Len(q) : Test(q[i])})
IsListingFetch(e) == e.role \in {"page", "scan"}

\* C1: one call of scrape_multiple_pages runs its loop body, and scans a listing
\* page, at most max_pages times (never when max_pages = 0).
C1_AtMostMaxPages ==
    /\ Count(fetchLog, LAMBDA e : e.role = "page") <= max_pages
    /\ Count(fetchLog, LAMBDA e : e.role = "scan") <= max_pages

\* C1 witness: a call stopped by the page limit alone, a next page being known.
C1_Witness ==
    /\ pc = "done"
    /\ max_pages = MaxPagesArg
    /\ Count(fetchLog, LAMBDA e : e.role = "scan") = max_pages
    /\ page_count = max_pages
    /\ current_url # NoneUrl

\* C2: when the resolver returns the current page's own URL, the step that
\* aggregates the page's records ends the call: the records are appended, the
\* page counter stays, and no request is issued from then on in that call.
C2_LoopGuard ==
    [][ /\ (pc = "advance" /\ get_next_page_url(current_url, html) = current_url)
            => /\ pc' = "done"
               /\ all_products' = all_products \o products
               /\ page_count' = page_count
               /\ fetchLog' = fetchLog
        /\ (pc = "done" /\ inv' = inv) => fetchLog' = fetchLog ]_vars

\* C2 witness: a call ended by the loop guard, with records aggregated.
C2_Witness ==
    /\ pc = "done"
    /\ Truthy(html)
    /\ get_next_page_url(current_url, html) = current_url
    /\ page_count < max_pages
    /\ products # <<>>
    /\ fetchLog # <<>>

\* C3 (as claimed): what a finished call returns is the concatenation, in visit
\* order, of the records of the pages that call visited.
C3_ReturnsOwnRecords == pc = "done" => all_products = run_records

\* the URLs the listing page's cards or anchors resolve to, duplicates included
RECURSIVE CardUrls(_)
CardUrls(cards) ==
    IF cards = <<>> THEN <<>>
    ELSE (IF HasHref(CardHref(Head(cards)))
          THEN <<urljoin(base_url, CardHref(Head(cards)))>> ELSE <<>>)
         \o CardUrls(Tail(cards))
AnchorUrls(doc) ==
    LET a == SelectSeq(AllAnchors(doc), LAMBDA e : LooksLikeProduct(e.href))
    IN  [i \in 1..Len(a) |-> urljoin(base_url, a[i].href)]
CandidateUrls(doc) ==
    IF CardUrls(ProductCards(doc)) # <<>> THEN CardUrls(ProductCards(doc))
    ELSE AnchorUrls(doc)
FirstIndex(q, x) == CHOOSE i \in 1..Len(q) : q[i] = x /\ \A j \in 1..(i - 1) : q[j] # x
JustScanned == pc = "products" /\ Len(fetchLog) = 1 /\ link_idx = 1

\* C4: the links of one listing page hold no URL twice, they are the URLs found
\* on the page in the order of their first occurrence, and no product URL is
\* requested twice for the page.
C4_UniqueLinks ==
    /\ SeqHasNoDuplicates(product_links)
    /\ SeqHasNoDuplicates(SelectSeq(fetchLog, LAMBDA e : e.role = "product"))
    /\ JustScanned =>
          LET cand == CandidateUrls(soup)
          IN  /\ \A i \in 1..Len(cand) : InSeq(cand[i], product_links)
              /\ \A i \in 1..Len(product_links) : InSeq(product_links[i], cand)
              /\ \A i, j \in 1..Len(product_links) :
                    i < j => FirstIndex(cand, product_links[i])
                                < FirstIndex(cand, product_links[j])

\* C4 witness: the same URL found twice on the page, written as two different
\* hrefs, and kept once.
C4_Witness ==
    /\ JustScanned
    /\ Len(product_links) = 1
    /\ Len(CandidateUrls(soup)) = 2
    /\ \E i, j \in 1..Len(soup.elems) :
          i # j /\ CardHref(soup.elems[i]) # CardHref(soup.elems[j])
          /\ HasHref(CardHref(soup.elems[i])) /\ HasHref(CardHref(soup.elems[j]))
          /\ urljoin(base_url, CardHref(soup.elems[i]))
                = urljoin(base_url, CardHref(soup.elems[j]))

\* what the claims say of a parsed page: `soup` is the page, products[1] its record
Parsed == mode = "parse" /\ products # <<>>
Selects(doc, f, i) == \E k \in 1..Len(doc.elems) : doc.elems[k].f = f /\ i \in doc.elems[k].sels
FirstSelected(doc, f, i) ==
    doc.elems[CHOOSE k \in 1..Len(doc.elems) :
                 /\ doc.elems[k].f = f /\ i \in doc.elems[k].sels
                 /\ \A m \in 1..(k - 1) : ~(doc.elems[m].f = f /\ i \in doc.elems[m].sels)]
LowestSelecting(doc, f) ==
    CHOOSE i \in 1..NumSel : Selects(doc, f, i) /\ \A m \in 1..(i - 1) : ~Selects(doc, f, m)
SelectsAny(doc, f) == \E i \in 1..NumSel : Selects(doc, f, i)
CleanerOf(f, t) ==
    CASE f \in {"price", "original_price"} -> CleanPrice(Strip(t))
      [] f = "sku" -> CleanSku(Strip(t))
      [] OTHER -> Strip(t)

\* the value the lowest selecting locator of a scalar field gives
ScalarFromLocator(doc, f) == CleanerOf(f, FirstSelected(doc, f, LowestSelecting(doc, f)).text)
\* the URLs of the elements the lowest selecting image locator selects
ImagesFromLocator(doc) ==
    ImageUrls(SelectSeq(doc.elems,
        LAMBDA e : e.f = "images" /\ LowestSelecting(doc, "images") \in e.sels))
\* the name/value pairs of the rows the lowest selecting specification locator selects
SpecsFromLocator(doc) ==
    SpecsOfRows(SelectSeq(doc.elems,
        LAMBDA e : e.f = "specifications" /\ LowestSelecting(doc, "specifications") \in e.sels),
        EmptyDict)

\* first-match-wins for the scalar fields and the specifications
FirstMatchWinsText ==
    Parsed =>
        /\ \A f \in ScalarFields :
              SelectsAny(soup, f) => products[1][f] = ScalarFromLocator(soup, f)
        /\ SelectsAny(soup, "specifications")
              => products[1]["specifications"] = SpecsFromLocator(soup)

\* C5 (as claimed): for every field with a locator list, the value in the
\* record comes from the lowest-index locator that selects something, whatever
\* later locators and fallbacks would give.
C5_FirstMatchWins ==
    /\ FirstMatchWinsText
    /\ (Parsed /\ SelectsAny(soup, "images"))
          => products[1]["images"] = ImagesFromLocator(soup)

\* where each fallback finds nothing
HasDollarDigits(t) == \E i \in 1..(Len(t) - 1) : t[i] = "$" /\ t[i + 1] \in Digits
HasSkuToken(t) ==
    \E i \in 1..Len(t), c \in {0, 1}, k \in 0..Len(t) :
        /\ i + 3 + c + k <= Len(t)
        /\ SubSeq(t, i, i + 2) = <<"S", "K", "U">>
        /\ c = 1 => t[i + 3] = ":"
        /\ \A m \in 0..(k - 1) : t[i + 3 + c + m] \in Whitespace
        /\ t[i + 3 + c + k] \in AlphaNumDash
NoTitle(doc) == ~SelectsAny(doc, "title") /\ \A k \in 1..Len(doc.elems) : ~doc.elems[k].h1
NoPrice(doc) == ~SelectsAny(doc, "price") /\ ~HasDollarDigits(Serialize(doc))
NoOriginalPrice(doc) == ~SelectsAny(doc, "original_price") /\ NoPrice(doc)
NoSku(doc) == ~SelectsAny(doc, "sku") /\ ~HasSkuToken(Serialize(doc))
NoDescription(doc) ==
    /\ ~SelectsAny(doc, "description")
    /\ \A k \in 1..Len(doc.elems) : doc.elems[k].f = "meta" => doc.elems[k].text = <<>>
NoImages(doc) ==
    /\ ~SelectsAny(doc, "images")
    /\ \A k \in 1..Len(doc.elems) :
          doc.elems[k].f = "images" =>
              ~(HasHref(ImgUrl(doc.elems[k])) /\ ImgLooksLikeProduct(ImgUrl(doc.elems[k])))
NoSpecifications(doc) == ~SelectsAny(doc, "specifications")
RecordKeys ==
    {"title", "price", "original_price", "sku", "description", "images", "specifications",
     "url"}

\* C6: a record has all eight keys, and a field none of whose locators and
\* fallbacks finds anything holds "N/A" (scalar fields), the empty sequence
\* (images) or the empty mapping (specifications).
C6_AllKeysSentinel ==
    \A i \in 1..Len(products) :
        LET rec == products[i]
        IN  /\ DOMAIN rec = RecordKeys
            /\ mode = "parse" =>
                  /\ NoTitle(soup) => rec["title"] = NA
                  /\ NoPrice(soup) => rec["price"] = NA
                  /\ NoOriginalPrice(soup) => rec["original_price"] = NA
                  /\ NoSku(soup) => rec["sku"] = NA
                  /\ NoDescription(soup) => rec["description"] = NA
                  /\ NoImages(soup) => rec["images"] = <<>>
                  /\ NoSpecifications(soup) => DOMAIN rec["specifications"] = {}

\* C6 witness: a page with elements on it where no field finds anything.
C6_Witness ==
    /\ Parsed
    /\ Len(soup.elems) = MaxDocElems
    /\ NoTitle(soup) /\ NoPrice(soup) /\ NoOriginalPrice(soup) /\ NoSku(soup)
    /\ NoDescription(soup) /\ NoImages(soup) /\ NoSpecifications(soup)
    /\ products[1]["title"] = NA
    /\ products[1]["images"] = <<>>

\* C7: with no records save_to_csv writes no file and prints its notice, while
\* save_to_json writes its file with an empty array; with records both write,
\* and the CSV file has one row per record.
C7_ExportOfEmptySet ==
    /\ last_print.msg = "No products to save" => (all_products = <<>> /\ ~csv_file.exists)
    /\ last_print.msg = "Saved to csv" =>
          /\ all_products # <<>>
          /\ csv_file.exists
          /\ Len(csv_file.data.rows) = Len(all_products)
          /\ last_print.n = Len(all_products)
    /\ last_print.msg = "Saved to json" => json_file = [exists |-> TRUE, data |-> all_products]
    /\ csv_file.exists => csv_file.data.rows # <<>>

\* C7 witness: both exports made with no records, after a call that found none.
C7_Witness ==
    /\ inv > 0
    /\ pc = "done"
    /\ all_products = <<>>
    /\ last_print.msg = "No products to save"
    /\ json_file.exists
    /\ json_file.data = <<>>
    /\ ~csv_file.exists

\* C8 (as claimed): once a request for a URL has failed, no later request of
\* the same call is for that URL.
C8_NeverFetchedAgain ==
    \A i, j \in 1..Len(fetchLog) :
        (i < j /\ ~fetchLog[i].ok) => fetchLog[j].url # fetchLog[i].url

\* C8 (amended): once a request for a URL has failed, no later request of the
\* same loop iteration is for that URL.
C8_NotRetriedInIteration ==
    \A i, j \in 1..Len(fetchLog) :
        (i < j /\ ~fetchLog[i].ok /\ fetchLog[i].it = fetchLog[j].it)
            => fetchLog[j].url # fetchLog[i].url

\* C8 witness: a product request failed, the next link of the same page was
\* requested, and a later page led to the failed URL again.
C8_Witness ==
    \E i, j, k \in 1..Len(fetchLog) :
        /\ i < j /\ j < k
        /\ ~fetchLog[i].ok
        /\ fetchLog[i].role = "product"
        /\ fetchLog[j].it = fetchLog[i].it
        /\ fetchLog[j].role = "product"
        /\ fetchLog[k].it > fetchLog[i].it
        /\ fetchLog[k].url = fetchLog[i].url

\* C9 (as claimed): every call starts from current_url = start_url,
\* page_count = 0 and an empty aggregated sequence.
C9_StartsEmpty ==
    (pc = "loop" /\ fetchLog = <<>>)
        => (current_url = start_url /\ page_count = 0 /\ all_products = <<>>)

\* C10 (as claimed): in one loop iteration the listing page is requested once,
\* and the links are scanned and the next page resolved only from a request
\* that succeeded.
C10_OneFetchPerIteration ==
    /\ \A i, j \in 1..Len(fetchLog) :
          (IsListingFetch(fetchLog[i]) /\ IsListingFetch(fetchLog[j])
             /\ fetchLog[i].it = fetchLog[j].it) => i = j
    /\ pc = "advance" =>
          \A i \in 1..Len(fetchLog) :
              (IsListingFetch(fetchLog[i]) /\ fetchLog[i].it = page_count + 1)
                  => fetchLog[i].ok

\* the elements the lowest selecting image locator selects that carry a URL
WinningImages(doc) ==
    SelectSeq(doc.elems,
        LAMBDA e : /\ e.f = "images"
                   /\ LowestSelecting(doc, "images") \in e.sels
                   /\ HasHref(ImgUrl(e)))

\* the images of the record are the URLs of the winning locator's elements
ImagesAreWinning(doc, images) ==
    /\ Len(images) = Len(WinningImages(doc))
    /\ \A i \in 1..Len(images) : images[i] = urljoin(base_url, ImgUrl(WinningImages(doc)[i]))

\* C11 (as claimed): once an image locator selects an element, the images are
\* exactly the src-or-data-src URLs of that locator's elements in document
\* order, the empty list included; the generic scan adds nothing.
C11_GenericOnlyWithoutMatch ==
    (Parsed /\ SelectsAny(soup, "images")) => ImagesAreWinning(soup, products[1]["images"])

\* the part of C11 the code keeps: a winning locator with at least one URL
ImagesWinningWhenNonEmpty ==
    (Parsed /\ SelectsAny(soup, "images") /\ WinningImages(soup) # <<>>)
        => ImagesAreWinning(soup, products[1]["images"])

====
